---------------------------- MODULE Spec2Model ----------------------------
(***************************************************************************)
(* The Review active record of lib/review.py: a reviews table reached      *)
(* through one shared sqlite connection, the class-level identity cache    *)
(* Review.all, and the Review instances the caller holds.                  *)
(*                                                                         *)
(* Every method is an operator from a program state S (a record of the     *)
(* variables) to an outcome [st, exc, ret]: the state it leaves, the       *)
(* exception it raised (NoExc when it returned) and what it returned.  An  *)
(* action applies one method to the current state; a call that raises and  *)
(* changes nothing is a step that leaves the state as it was.              *)
(***************************************************************************)
EXTENDS Integers, Sequences, FiniteSets, TLC

VARIABLES
    has_table,       \* the reviews table exists in the database
    reviews,         \* its rows, as the shared connection sees them
    employees,       \* ids of the rows of the employees table
    heap,            \* the Review instances constructed so far; a reference is an index
    all,             \* Review.all: id -> reference
    in_transaction   \* a statement has been executed and not yet committed

vars == <<has_table, reviews, employees, heap, all, in_transaction>>

\* ------------------------------------------------------------------ bounds

MaxObjects == 2
MaxId == 2

\* ---------------------------------------------------------- python values

None == 0
MinYear == 2000

PyInt(n) == [kind |-> "int", i |-> n, s |-> ""]
PyStr(t) == [kind |-> "str", i |-> 0, s |-> t]
PyNone == [kind |-> "none", i |-> 0, s |-> ""]

NoExc == "none"
Raised(S, e) == [st |-> S, exc |-> e, ret |-> None]
Returned(S, v) == [st |-> S, exc |-> NoExc, ret |-> v]

\* ------------------------------------------------------------- input sets

RowIds == 1 .. MaxId
EmployeeIds == {1, 2}
Years == {1999, 2023}
Summaries == {"", "ok"}

YearArgs == {PyInt(y) : y \in Years} \cup {PyStr("2023")}
SummaryArgs == {PyStr(t) : t \in Summaries} \cup {PyNone}
EmployeeIdArgs == {PyInt(e) : e \in EmployeeIds} \cup {PyStr("1")}
IdArgs == {None} \cup RowIds

Rows == [id : RowIds, year : Years, summary : Summaries, employee_id : EmployeeIds]
ValidRows == {r \in Rows : r.year >= MinYear /\ r.summary # ""}

Refs(S) == 1 .. Len(S.heap)

\* ------------------------------------------------------------- validation

validate_year(S, year) ==
    IF year.kind # "int" THEN Raised(S, "ValueError: Year must be an integer.")
    ELSE IF year.i < MinYear
         THEN Raised(S, "ValueError: Year must be greater than or equal to 2000.")
    ELSE Returned(S, year.i)

validate_summary(S, summary) ==
    IF summary.kind = "none" \/ summary.s = ""
    THEN Raised(S, "ValueError: Summary cannot be empty.")
    ELSE Returned(S, summary.s)

\* Mutant: the employee is not looked up.
validate_employee_id_typeOnly(S, employee_id) ==
    IF employee_id.kind # "int"
    THEN Raised(S, "ValueError: Employee ID must be an integer.")
    ELSE Returned(S, employee_id.i)

validate_employee_id(S, employee_id) ==
    IF employee_id.kind # "int"
    THEN Raised(S, "ValueError: Employee ID must be an integer.")
    ELSE IF employee_id.i \notin S.employees
         THEN Raised(S, "ValueError: Employee ID must reference an existing employee.")
    ELSE Returned(S, employee_id.i)

\* Review(year, summary, employee_id, id): the instance, or the first failure.
Review_init(S, year, summary, employee_id, id) ==
    LET y == validate_year(S, year)
        t == validate_summary(S, summary)
        e == validate_employee_id(S, employee_id)
    IN  IF y.exc # NoExc THEN y
        ELSE IF t.exc # NoExc THEN t
        ELSE IF e.exc # NoExc THEN e
        ELSE Returned(S, [id |-> id, year |-> y.ret, summary |-> t.ret,
                          employee_id |-> e.ret])

\* A freshly constructed instance gets the next reference.
Allocate(S, obj) == [S EXCEPT !.heap = Append(@, obj)]

\* ------------------------------------------------------------ the database

commit(S) == [S EXCEPT !.in_transaction = FALSE]

Max(ids) == CHOOSE m \in ids : \A x \in ids : x <= m

\* Mutant: the new row's id is taken from the number of rows.
lastrowid_count(rows) == Cardinality(rows) + 1

\* INTEGER PRIMARY KEY: the new row's id is one more than the largest in use.
lastrowid(rows) == IF rows = {} THEN 1 ELSE Max({r.id : r \in rows}) + 1

\* sqlite stores a python int in the INT and INTEGER columns and a str in the
\* TEXT column as they are, and hands them back unchanged.  The connection
\* does not enforce the FOREIGN KEY clause (sqlite's default), so a row may name
\* an employee_id with no employees row.
InsertRow(S, obj) ==
    [S EXCEPT !.reviews = @ \cup {[id |-> lastrowid(S.reviews), year |-> obj.year,
                                   summary |-> obj.summary,
                                   employee_id |-> obj.employee_id]},
              !.in_transaction = TRUE]

\* Mutant: an UPDATE without its WHERE clause.
UpdateRow_all(S, obj) ==
    [S EXCEPT !.reviews = {[id |-> r.id, year |-> obj.year,
                            summary |-> obj.summary,
                            employee_id |-> obj.employee_id] : r \in @},
              !.in_transaction = TRUE]

UpdateRow(S, obj) ==
    [S EXCEPT !.reviews = {IF r.id = obj.id
                           THEN [id |-> r.id, year |-> obj.year,
                                 summary |-> obj.summary,
                                 employee_id |-> obj.employee_id]
                           ELSE r : r \in @},
              !.in_transaction = TRUE]

\* Mutant: a DELETE without its WHERE clause.
DeleteRow_all(S, id) ==
    [S EXCEPT !.reviews = {}, !.in_transaction = TRUE]

DeleteRow(S, id) ==
    [S EXCEPT !.reviews = {r \in @ : r.id # id}, !.in_transaction = TRUE]

SelectById(S, id) == {r \in S.reviews : r.id = id}

\* ------------------------------------------------------------- the methods

create_table(S) ==
    Returned(commit([S EXCEPT !.has_table = TRUE]), None)

drop_table(S) ==
    Returned(commit([S EXCEPT !.has_table = FALSE, !.reviews = {}]), None)

\* Without the table every statement on reviews raises sqlite3.OperationalError.
update(S, o) ==
    IF ~S.has_table THEN Raised(S, "OperationalError")
    ELSE Returned(commit(UpdateRow(S, S.heap[o])), None)

\* Mutant: the inserted instance is not registered in the cache.
save_unregistered(S, o) ==
    IF S.heap[o].id = None
    THEN IF ~S.has_table THEN Raised(S, "OperationalError")
         ELSE LET id == lastrowid(S.reviews)
                  S1 == InsertRow(S, S.heap[o])
                  S2 == [S1 EXCEPT !.heap[o].id = id]
              IN  Returned(commit(S2), None)
    ELSE LET u == update(S, o)
         IN  IF u.exc # NoExc THEN u ELSE Returned(commit(u.st), None)

\* Mutant: save() validates the employee again before it writes.
save_rechecks(S, o) ==
    LET e == validate_employee_id(S, PyInt(S.heap[o].employee_id))
    IN  IF e.exc # NoExc THEN e
        ELSE IF S.heap[o].id = None
        THEN IF ~S.has_table THEN Raised(S, "OperationalError")
             ELSE LET id == lastrowid(S.reviews)
                      S1 == InsertRow(S, S.heap[o])
                      S2 == [S1 EXCEPT !.heap[o].id = id]
                      S3 == [S2 EXCEPT !.all = (id :> o) @@ @]
                  IN  Returned(commit(S3), None)
        ELSE LET u == update(S, o)
             IN  IF u.exc # NoExc THEN u ELSE Returned(commit(u.st), None)

save(S, o) ==
    IF S.heap[o].id = None
    THEN IF ~S.has_table THEN Raised(S, "OperationalError")
         ELSE LET id == lastrowid(S.reviews)
                  S1 == InsertRow(S, S.heap[o])
                  S2 == [S1 EXCEPT !.heap[o].id = id]
                  S3 == [S2 EXCEPT !.all = (id :> o) @@ @]
              IN  Returned(commit(S3), None)
    ELSE LET u == update(S, o)
         IN  IF u.exc # NoExc THEN u ELSE Returned(commit(u.st), None)

\* When save() raises, the new instance is dropped with the caller's frame.
create(S, year, summary, employee_id) ==
    LET c == Review_init(S, year, summary, employee_id, None)
    IN  IF c.exc # NoExc THEN c
        ELSE LET S1 == Allocate(S, c.ret)
                 o == Len(S1.heap)
                 v == save(S1, o)
             IN  IF v.exc # NoExc THEN Raised(S, v.exc) ELSE Returned(v.st, o)

instance_from_db(S, row) ==
    IF row.id \in DOMAIN S.all
    THEN LET o == S.all[row.id]
         IN  Returned([S EXCEPT !.heap[o].year = row.year,
                                !.heap[o].summary = row.summary,
                                !.heap[o].employee_id = row.employee_id], o)
    ELSE LET c == Review_init(S, PyInt(row.year), PyStr(row.summary),
                              PyInt(row.employee_id), row.id)
         IN  IF c.exc # NoExc THEN c
             ELSE LET S1 == Allocate(S, c.ret)
                      o == Len(S1.heap)
                  IN  Returned([S1 EXCEPT !.all = (row.id :> o) @@ @], o)

find_by_id(S, id) ==
    IF ~S.has_table THEN Raised(S, "OperationalError")
    ELSE LET found == SelectById(S, id)
         IN  IF found # {}
             THEN instance_from_db(S, CHOOSE r \in found : TRUE)
             ELSE Returned(S, None)

\* The DELETE runs before `del Review.all[self.id]`: a KeyError leaves it
\* executed and uncommitted.  WHERE id = NULL matches no row.
delete(S, o) ==
    IF ~S.has_table THEN Raised(S, "OperationalError")
    ELSE LET id == S.heap[o].id
             S1 == DeleteRow(S, id)
         IN  IF id \notin DOMAIN S1.all THEN Raised(S1, "KeyError")
             ELSE LET S2 == [S1 EXCEPT !.all = [k \in DOMAIN @ \ {id} |-> @[k]]]
                      S3 == [S2 EXCEPT !.heap[o].id = None]
                  IN  Returned(commit(S3), None)

\* The rows in rowid order, as SELECT * returns them.
RECURSIVE fetchall(_)
fetchall(rows) ==
    IF rows = {} THEN <<>>
    ELSE LET r == CHOOSE x \in rows : \A z \in rows : x.id <= z.id
         IN  <<r>> \o fetchall(rows \ {r})

\* [cls.instance_from_db(row) for row in rows]: stops at the first exception,
\* keeping what the earlier rows did.
RECURSIVE from_rows(_, _, _)
from_rows(S, rows, acc) ==
    IF rows = <<>> THEN Returned(S, acc)
    ELSE LET r == instance_from_db(S, Head(rows))
         IN  IF r.exc # NoExc THEN r
             ELSE from_rows(r.st, Tail(rows), Append(acc, r.ret))

get_all(S) ==
    IF ~S.has_table THEN Raised(S, "OperationalError")
    ELSE from_rows(S, fetchall(S.reviews), <<>>)

\* review.employee_id = value
set_employee_id(S, o, value) ==
    LET e == validate_employee_id(S, value)
    IN  IF e.exc # NoExc THEN e
        ELSE Returned([S EXCEPT !.heap[o].employee_id = e.ret], None)

\* review.year = value and review.summary = value: plain attributes.
set_year(S, o, value) == Returned([S EXCEPT !.heap[o].year = value], None)

set_summary(S, o, value) == Returned([S EXCEPT !.heap[o].summary = value], None)

\* ------------------------------------------------------------- the machine

Cur == [has_table |-> has_table, reviews |-> reviews, employees |-> employees,
        heap |-> heap, all |-> all, in_transaction |-> in_transaction]

\* References a call may need beyond those in use.
Uncached(S, rows) == {r.id : r \in rows} \ DOMAIN S.all

Becomes(r) ==
    /\ has_table' = r.st.has_table
    /\ reviews' = r.st.reviews
    /\ employees' = r.st.employees
    /\ heap' = r.st.heap
    /\ all' = r.st.all
    /\ in_transaction' = r.st.in_transaction

EmptyCache == [k \in {} |-> None]

Databases == {db \in SUBSET ValidRows :
                \A r1, r2 \in db : r1.id = r2.id => r1 = r2}

\* The database file outlives the process: at import the table may exist and
\* hold rows an earlier run left, and the cache is empty.
Init ==
    /\ has_table \in BOOLEAN
    /\ reviews \in IF has_table THEN Databases ELSE {{}}
    /\ employees \in SUBSET EmployeeIds
    /\ heap = <<>>
    /\ all = EmptyCache
    /\ in_transaction = FALSE

\* A new database: no rows.
InitEmpty ==
    /\ has_table \in BOOLEAN
    /\ reviews = {}
    /\ employees \in SUBSET EmployeeIds
    /\ heap = <<>>
    /\ all = EmptyCache
    /\ in_transaction = FALSE

CreateTable == \E S \in {Cur} : Becomes(create_table(S))

DropTable == \E S \in {Cur} : Becomes(drop_table(S))

Construct ==
    \E y \in YearArgs, t \in SummaryArgs, e \in EmployeeIdArgs, id \in IdArgs :
        LET c == Review_init(Cur, y, t, e, id)
        IN  /\ Len(heap) < MaxObjects
            /\ Becomes(IF c.exc # NoExc THEN c
                       ELSE Returned(Allocate(Cur, c.ret), Len(heap) + 1))

Create ==
    \E y \in YearArgs, t \in SummaryArgs, e \in EmployeeIdArgs :
        /\ Len(heap) < MaxObjects
        /\ lastrowid(reviews) <= MaxId
        /\ Becomes(create(Cur, y, t, e))

Save ==
    \E o \in Refs(Cur) :
        /\ heap[o].id = None => lastrowid(reviews) <= MaxId
        /\ Becomes(save(Cur, o))

Update == \E o \in Refs(Cur) : Becomes(update(Cur, o))

Delete == \E o \in Refs(Cur) : Becomes(delete(Cur, o))

FindById ==
    \E id \in IdArgs :
        /\ Len(heap) + Cardinality(Uncached(Cur, SelectById(Cur, id))) <= MaxObjects
        /\ Becomes(find_by_id(Cur, id))

GetAll ==
    /\ Len(heap) + Cardinality(Uncached(Cur, reviews)) <= MaxObjects
    /\ Becomes(get_all(Cur))

InstanceFromDb ==
    \E row \in Rows :
        /\ Len(heap) + Cardinality(Uncached(Cur, {row})) <= MaxObjects
        /\ Becomes(instance_from_db(Cur, row))

SetEmployeeId ==
    \E o \in Refs(Cur), e \in EmployeeIdArgs :
        Becomes(set_employee_id(Cur, o, e))

SetYear == \E o \in Refs(Cur), y \in Years : Becomes(set_year(Cur, o, y))

SetSummary ==
    \E o \in Refs(Cur), t \in Summaries : Becomes(set_summary(Cur, o, t))

\* The Employee collaborator adds and removes rows of the employees table.
EmployeeCreated ==
    \E e \in EmployeeIds \ employees :
        Becomes(Returned([Cur EXCEPT !.employees = @ \cup {e}], None))

EmployeeDeleted ==
    \E e \in employees :
        Becomes(Returned([Cur EXCEPT !.employees = @ \ {e}], None))

Next ==
    \/ CreateTable
    \/ DropTable
    \/ Construct
    \/ Create
    \/ Save
    \/ Update
    \/ Delete
    \/ FindById
    \/ GetAll
    \/ InstanceFromDb
    \/ SetEmployeeId
    \/ SetYear
    \/ SetSummary
    \/ EmployeeCreated
    \/ EmployeeDeleted

Spec == Init /\ [][Next]_vars

\* The calls of the class alone, from an empty database: every instance comes
\* from create, find_by_id or get_all.
NextCrud ==
    \/ CreateTable
    \/ DropTable
    \/ Create
    \/ Save
    \/ Update
    \/ Delete
    \/ FindById
    \/ GetAll

SpecCrud == InitEmpty /\ [][NextCrud]_vars


\* ------------------------------------------------------------- vocabulary

RowOf(obj, k) ==
    [id |-> k, year |-> obj.year, summary |-> obj.summary,
     employee_id |-> obj.employee_id]

SameFields(a, b) ==
    a.year = b.year /\ a.summary = b.summary /\ a.employee_id = b.employee_id

HasRow(S, k) == \E r \in S.reviews : r.id = k

\* The fields would pass the constructor's checks on year and summary.
Valid(obj) == obj.year >= MinYear /\ obj.summary # ""

Unpersisted(o) == heap[o].id = None

\* The instance has an id, the table holds the row of that id and the cache
\* has an entry for it: what save and the loaders establish.
Persisted(o) ==
    /\ heap[o].id # None
    /\ has_table
    /\ HasRow(Cur, heap[o].id)
    /\ heap[o].id \in DOMAIN all

ValidationErrors ==
    {"ValueError: Year must be an integer.",
     "ValueError: Year must be greater than or equal to 2000.",
     "ValueError: Summary cannot be empty.",
     "ValueError: Employee ID must be an integer.",
     "ValueError: Employee ID must reference an existing employee."}

\* --------------------------------------------------------------------- C1

\* save() of instance o inserts exactly one row with o's fields, gives o the
\* new row's id, registers o in the cache under it, and find_by_id of that id
\* then returns o with the same fields.
SaveInserts(o) ==
    LET r == save(Cur, o)
        k == r.st.heap[o].id
        f == find_by_id(r.st, k)
    IN  /\ r.exc = NoExc
        /\ k # None
        /\ ~HasRow(Cur, k)
        /\ r.st.reviews = reviews \cup {RowOf(heap[o], k)}
        /\ Cardinality(r.st.reviews) = Cardinality(reviews) + 1
        /\ k \in DOMAIN r.st.all
        /\ r.st.all[k] = o
        /\ r.st.heap = [heap EXCEPT ![o].id = k]
        /\ f.exc = NoExc
        /\ f.ret = o
        /\ f.st.heap[o] = [heap[o] EXCEPT !.id = k]

\* C1 as stated: in every reachable state, save() of every valid unpersisted
\* Review inserts its row, assigns the id, registers the instance, and
\* find_by_id(id) returns it.
C1_SaveInsertsInAnyState ==
    \A o \in Refs(Cur) : Unpersisted(o) /\ Valid(heap[o]) => SaveInserts(o)

\* C1 amended: the same in every reachable state where the reviews table
\* exists (without the table the INSERT raises and nothing changes).
C1_SaveInserts ==
    \A o \in Refs(Cur) :
        Unpersisted(o) /\ Valid(heap[o]) /\ has_table => SaveInserts(o)

\* C1 witness: a valid unpersisted instance whose save() adds the row of id 2
\* to a table that already holds a row.
C1_Witness ==
    \E o \in Refs(Cur) :
        /\ Unpersisted(o) /\ Valid(heap[o]) /\ has_table
        /\ reviews # {}
        /\ SaveInserts(o)
        /\ save(Cur, o).st.heap[o].id = 2

\* --------------------------------------------------------------------- C2

\* delete() of instance o, whose id is k, removes row k and cache entry k and
\* nothing else, resets o's id, and find_by_id(k) then returns None.
DeleteRemoves(o) ==
    LET k == heap[o].id
        r == delete(Cur, o)
        f == find_by_id(r.st, k)
    IN  /\ r.exc = NoExc
        /\ ~HasRow(r.st, k)
        /\ k \notin DOMAIN r.st.all
        /\ r.st.heap[o].id = None
        /\ f.exc = NoExc
        /\ f.ret = None
        /\ r.st.reviews = {x \in reviews : x.id # k}
        /\ DOMAIN r.st.all = DOMAIN all \ {k}
        /\ \A j \in DOMAIN r.st.all : r.st.all[j] = all[j]

\* C2: for every persisted Review with id k, after delete() the table has no
\* row k, the cache no entry k, the instance's id is None, find_by_id(k)
\* returns None, and every other row and cache entry is unchanged.
C2_DeleteRemoves ==
    \A o \in Refs(Cur) : Persisted(o) => DeleteRemoves(o)

\* C2 witness: a persisted instance is deleted while a second row and a second
\* cache entry exist.
C2_Witness ==
    \E o \in Refs(Cur) :
        /\ Persisted(o)
        /\ Cardinality(reviews) = 2
        /\ Cardinality(DOMAIN all) = 2
        /\ DeleteRemoves(o)

\* --------------------------------------------------------------------- C3

\* update() of instance o, whose id is k, rewrites row k alone with o's
\* fields, and find_by_id(k) then returns an instance holding those fields.
UpdateRoundTrip(o) ==
    LET k == heap[o].id
        u == update(Cur, o)
        f == find_by_id(u.st, k)
    IN  /\ u.exc = NoExc
        /\ u.st.reviews = {x \in reviews : x.id # k} \cup {RowOf(heap[o], k)}
        /\ Cardinality(u.st.reviews) = Cardinality(reviews)
        /\ f.exc = NoExc
        /\ f.ret \in Refs(f.st)
        /\ SameFields(f.st.heap[f.ret], heap[o])

\* C3: for every persisted Review with id k, update() followed by
\* find_by_id(k) returns an instance with the fields the instance held when
\* update() was called, and update() changes no row but row k.
C3_UpdateRoundTrip ==
    \A o \in Refs(Cur) : Persisted(o) => UpdateRoundTrip(o)

\* C3 witness: a persisted instance whose fields differ from its row is
\* updated while the table holds a second row.
C3_Witness ==
    \E o \in Refs(Cur) :
        /\ Persisted(o)
        /\ \E x \in reviews : x.id = heap[o].id /\ ~SameFields(heap[o], x)
        /\ Cardinality(reviews) = 2
        /\ UpdateRoundTrip(o)

\* --------------------------------------------------------------------- C4

\* C4 as stated: in every reachable state, instance_from_db called twice with
\* rows of the same id (the first a row of the table) returns the same
\* reference both times, creates no second instance, and leaves the returned
\* instance with the fields of the row passed in.
C4_SameReference ==
    \A row \in reviews :
        LET a == instance_from_db(Cur, row)
        IN  /\ a.exc = NoExc
            /\ SameFields(a.st.heap[a.ret], row)
            /\ \A row2 \in {x \in Rows : x.id = row.id} :
                   LET b == instance_from_db(a.st, row2)
                   IN  /\ b.exc = NoExc
                       /\ b.ret = a.ret
                       /\ Len(b.st.heap) = Len(a.st.heap)
                       /\ SameFields(b.st.heap[b.ret], row2)

\* --------------------------------------------------------------------- C5

BadEmployeeId(e) == e.kind # "int" \/ e.i \notin employees

BadArgs(y, t, e) ==
    \/ y.kind # "int"
    \/ y.i < MinYear
    \/ t.kind = "none"
    \/ t.s = ""
    \/ BadEmployeeId(e)

\* C5: with a year that is no integer >= 2000, an empty summary or an
\* employee_id with no Employee row, construction and create() raise a
\* validation error and change nothing; assigning such an employee_id to an
\* instance raises one too and the instance keeps its employee_id.
C5_ValidationFirst ==
    /\ \A y \in YearArgs, t \in SummaryArgs, e \in EmployeeIdArgs :
           BadArgs(y, t, e) =>
               /\ \A id \in IdArgs :
                      LET c == Review_init(Cur, y, t, e, id)
                      IN  c.exc \in ValidationErrors /\ c.st = Cur
               /\ LET c == create(Cur, y, t, e)
                  IN  c.exc \in ValidationErrors /\ c.st = Cur
    /\ \A o \in Refs(Cur), e \in EmployeeIdArgs :
           BadEmployeeId(e) =>
               LET r == set_employee_id(Cur, o, e)
               IN  /\ r.exc \in ValidationErrors
                   /\ r.st.heap[o].employee_id = heap[o].employee_id
                   /\ r.st = Cur

\* C5 witness: the table holds a row, an instance exists, employee 1 exists
\* and employee 2 does not; create(2023, "ok", 2) and the assignment of 2 are
\* both refused.
C5_Witness ==
    /\ has_table
    /\ reviews # {}
    /\ employees = {1}
    /\ create(Cur, PyInt(2023), PyStr("ok"), PyInt(2)).exc
           = "ValueError: Employee ID must reference an existing employee."
    /\ create(Cur, PyInt(1999), PyStr("ok"), PyInt(1)).exc
           = "ValueError: Year must be greater than or equal to 2000."
    /\ \E o \in Refs(Cur) :
           /\ heap[o].employee_id = 1
           /\ set_employee_id(Cur, o, PyInt(2)).exc # NoExc

\* --------------------------------------------------------------------- C6

\* C6 as stated: in every reachable state where the table exists,
\* find_by_id(k) raises nothing, returns an instance with the fields of row k
\* when the table holds one, and returns None when it holds none.
C6_FindByIdNeverRaises ==
    \A k \in RowIds :
        has_table =>
            LET f == find_by_id(Cur, k)
            IN  /\ f.exc = NoExc
                /\ HasRow(Cur, k) =>
                       /\ f.ret \in Refs(f.st)
                       /\ RowOf(f.st.heap[f.ret], k) \in reviews
                /\ ~HasRow(Cur, k) => f.ret = None

\* --------------------------------------------------------------------- C7

\* No call but o's own delete() changes the id of instance o.
KeepsId(o) ==
    LET k == heap[o].id
    IN  /\ \A p \in Refs(Cur) :
               /\ save(Cur, p).st.heap[o].id = k
               /\ update(Cur, p).st.heap[o].id = k
               /\ p # o => delete(Cur, p).st.heap[o].id = k
               /\ \A e \in EmployeeIdArgs :
                      set_employee_id(Cur, p, e).st.heap[o].id = k
               /\ \A y \in Years : set_year(Cur, p, y).st.heap[o].id = k
               /\ \A t \in Summaries : set_summary(Cur, p, t).st.heap[o].id = k
        /\ \A id \in IdArgs : find_by_id(Cur, id).st.heap[o].id = k
        /\ get_all(Cur).st.heap[o].id = k
        /\ \A row \in Rows : instance_from_db(Cur, row).st.heap[o].id = k
        /\ create_table(Cur).st.heap[o].id = k
        /\ drop_table(Cur).st.heap[o].id = k
        /\ \A y \in YearArgs, t \in SummaryArgs, e \in EmployeeIdArgs :
               create(Cur, y, t, e).st.heap[o].id = k

\* save() of an instance that has an id does what update() does and adds no
\* row.
SaveDelegates(o) ==
    LET s == save(Cur, o)
        u == update(Cur, o)
    IN  /\ s.exc = u.exc
        /\ s.st = u.st
        /\ Cardinality(s.st.reviews) = Cardinality(reviews)
        /\ {x.id : x \in s.st.reviews} = {x.id : x \in reviews}

\* C7: once an instance has an id, no save, update, find_by_id, get_all,
\* instance_from_db or employee_id assignment (nor any call but its own
\* delete) changes it; save() of such an instance delegates to update and
\* inserts no row; and no two rows share an id.
C7_IdStable ==
    /\ \A r1, r2 \in reviews : r1.id = r2.id => r1 = r2
    /\ \A o \in Refs(Cur) : heap[o].id # None => KeepsId(o) /\ SaveDelegates(o)

\* C7 witness: two rows, and a persisted instance with changed fields whose
\* save() rewrites its row and keeps its id.
C7_Witness ==
    \E o \in Refs(Cur) :
        /\ Persisted(o)
        /\ Cardinality(reviews) = 2
        /\ save(Cur, o).exc = NoExc
        /\ save(Cur, o).st.reviews # reviews
        /\ save(Cur, o).st.heap[o].id = heap[o].id

\* --------------------------------------------------------------------- C8

\* C8: save() and update() do not look the employee up again: with the table
\* in place, save() of an instance whose employee_id has no Employee row
\* still succeeds and stores a row with that employee_id (inserted when the
\* instance has no id, rewritten when its row exists), and so does update().
C8_NoRecheck ==
    \A o \in Refs(Cur) :
        has_table /\ heap[o].employee_id \notin employees =>
            LET s == save(Cur, o)
                u == update(Cur, o)
            IN  /\ s.exc = NoExc
                /\ u.exc = NoExc
                /\ Unpersisted(o) \/ HasRow(Cur, heap[o].id) =>
                       RowOf(heap[o], s.st.heap[o].id) \in s.st.reviews
                /\ HasRow(Cur, heap[o].id) =>
                       RowOf(heap[o], heap[o].id) \in u.st.reviews

\* C8 witness: nothing is stored or cached yet, an instance that passed the
\* constructor's checks has no id, its employee is gone from the employees
\* table, and save() inserts a row that references no Employee.
C8_Witness ==
    \E o \in Refs(Cur) :
        /\ has_table
        /\ reviews = {}
        /\ DOMAIN all = {}
        /\ Unpersisted(o)
        /\ Valid(heap[o])
        /\ heap[o].employee_id \notin employees
        /\ \E x \in save(Cur, o).st.reviews : x.employee_id \notin employees

\* --------------------------------------------------------------------- C9

\* C9 as stated: from an empty table and cache, after any sequence of
\* create_table, drop_table, create, save, update, delete, find_by_id and
\* get_all, the cache's keys are the ids of the table's rows, the instance
\* cached under k has id k, and no two instances carry the same id.
C9_CacheMatchesTable ==
    /\ DOMAIN all = {r.id : r \in reviews}
    /\ \A k \in DOMAIN all : heap[all[k]].id = k
    /\ \A o, p \in Refs(Cur) :
           o # p /\ heap[o].id # None => heap[o].id # heap[p].id

\* -------------------------------------------------------------------- C10

\* C10 as stated: delete() of an instance with no cache entry under its id
\* raises, and leaves the table, the cache and the instance's id as they were.
C10_FailedDeleteChangesNothing ==
    \A o \in Refs(Cur) :
        heap[o].id \notin DOMAIN all =>
            LET r == delete(Cur, o)
            IN  /\ r.exc # NoExc
                /\ r.st.reviews = reviews
                /\ r.st.all = all
                /\ r.st.heap[o].id = heap[o].id

=============================================================================
